---- MODULE Spec2Model ----
(***************************************************************************)
(* Plan scheduler (srouce/main.py): the plan-file parser parse_plan_file,  *)
(* the day lookup find_today_schedule and the evaluation performed by      *)
(* render_main_view on every refresh of run_scheduler, and the key         *)
(* handling of run_scheduler that switches between its two views.          *)
(*                                                                         *)
(* Representation.                                                         *)
(*   - A line of the plan file is a record holding the tokens the two      *)
(*     regular expressions of parse_plan_file capture ("form" is the       *)
(*     lexical shape of the stripped line).                                *)
(*   - A token (month, day, year, hour, minute) and a description are      *)
(*     tuples of characters. An ASCII character is the one-character       *)
(*     string; a character outside ASCII is the string of its code point,  *)
(*     "U+212A". The alphabet is ASCII plus                                *)
(*       . the characters whose str.lower() yields an ASCII character:     *)
(*         U+212A (KELVIN SIGN) and U+0130 (capital I with dot above), and *)
(*         U+0307 (combining dot above), which the second lower-cases      *)
(*         into;                                                           *)
(*       . the decimal digits U+0660..U+0669 (ARABIC-INDIC) and            *)
(*         U+FF10..U+FF19 (FULLWIDTH), which \d of a str pattern matches   *)
(*         as it matches every decimal digit of Unicode.                   *)
(*   - A date is the tuple <<year, month, day>>; None is the empty tuple.  *)
(*   - A datetime is [date, secs] with secs the seconds since midnight.    *)
(*   - An optional value (current_day, today_schedule, current_event) is   *)
(*     a tuple of length 0 (None) or 1.                                    *)
(***************************************************************************)
EXTENDS Integers, Sequences, FiniteSets, TLC

VARIABLES
    lines,              \* parse_plan_file: the lines read from the file
    pc,                 \* "parse" | "run" | "raised" | "exit"
    i,                  \* number of lines the for-loop has consumed
    days,               \* parse_plan_file: days
    current_day,        \* parse_plan_file: current_day (None = <<>>)
    current_events,     \* parse_plan_file: current_events
    current_dt,         \* run_scheduler: current_dt of the last refresh
    today_schedule,     \* run_scheduler: today_schedule of the last refresh
    current_event,      \* render_main_view: current_event
    upcoming_non_break, \* render_main_view: upcoming_non_break
    remaining_minutes,  \* render_main_view: remaining_minutes (-1 = not computed)
    view_full_schedule, \* run_scheduler: view_full_schedule
    key                 \* run_scheduler: the last value of stdscr.getch() handled

vars == <<lines, pc, i, days, current_day, current_events, current_dt,
          today_schedule, current_event, upcoming_non_break, remaining_minutes,
          view_full_schedule, key>>

parse_vars == <<days, current_day, current_events>>
render_vars == <<current_dt, today_schedule, current_event, upcoming_non_break,
                 remaining_minutes, view_full_schedule, key>>

None == <<>>

\* Longest plan file explored, in lines.
MaxLines == 3

-----------------------------------------------------------------------------
(* Text helpers *)

UpperToLower ==
    ("A" :> "a") @@ ("B" :> "b") @@ ("C" :> "c") @@ ("D" :> "d") @@ ("E" :> "e") @@
    ("F" :> "f") @@ ("G" :> "g") @@ ("H" :> "h") @@ ("I" :> "i") @@ ("J" :> "j") @@
    ("K" :> "k") @@ ("L" :> "l") @@ ("M" :> "m") @@ ("N" :> "n") @@ ("O" :> "o") @@
    ("P" :> "p") @@ ("Q" :> "q") @@ ("R" :> "r") @@ ("S" :> "s") @@ ("T" :> "t") @@
    ("U" :> "u") @@ ("V" :> "v") @@ ("W" :> "w") @@ ("X" :> "x") @@ ("Y" :> "y") @@
    ("Z" :> "z")

\* the ASCII letters
AsciiLetters == DOMAIN UpperToLower \cup {UpperToLower[c] : c \in DOMAIN UpperToLower}

\* str.lower() of one character: A-Z by the table, KELVIN SIGN to k, capital
\* I with dot above to i followed by the combining dot, the rest of the
\* alphabet to itself
lower_char(c) ==
    IF c \in DOMAIN UpperToLower THEN <<UpperToLower[c]>>
    ELSE IF c = "U+212A" THEN <<"k">>
    ELSE IF c = "U+0130" THEN <<"i", "U+0307">>
    ELSE <<c>>

\* str.lower()
RECURSIVE lower(_)
lower(s) ==
    IF s = <<>> THEN <<>> ELSE lower_char(Head(s)) \o lower(Tail(s))

\* sub in s
contains(s, sub) ==
    \E k \in 0..(Len(s) - Len(sub)) : SubSeq(s, k + 1, k + Len(sub)) = sub

BreakWord == <<"b", "r", "e", "a", "k">>

\* the ASCII digits and their values
AsciiDigits ==
    ("0" :> 0) @@ ("1" :> 1) @@ ("2" :> 2) @@ ("3" :> 3) @@ ("4" :> 4) @@
    ("5" :> 5) @@ ("6" :> 6) @@ ("7" :> 7) @@ ("8" :> 8) @@ ("9" :> 9)

\* the decimal digits outside ASCII and their values: ARABIC-INDIC DIGIT ZERO
\* to NINE, FULLWIDTH DIGIT ZERO to NINE
UnicodeDigits ==
    ("U+0660" :> 0) @@ ("U+0661" :> 1) @@ ("U+0662" :> 2) @@ ("U+0663" :> 3) @@
    ("U+0664" :> 4) @@ ("U+0665" :> 5) @@ ("U+0666" :> 6) @@ ("U+0667" :> 7) @@
    ("U+0668" :> 8) @@ ("U+0669" :> 9) @@
    ("U+FF10" :> 0) @@ ("U+FF11" :> 1) @@ ("U+FF12" :> 2) @@ ("U+FF13" :> 3) @@
    ("U+FF14" :> 4) @@ ("U+FF15" :> 5) @@ ("U+FF16" :> 6) @@ ("U+FF17" :> 7) @@
    ("U+FF18" :> 8) @@ ("U+FF19" :> 9)

\* the value int() gives a decimal digit
DigitValue == AsciiDigits @@ UnicodeDigits

\* \d of a str pattern: any decimal digit
is_digit(c) == c \in DOMAIN DigitValue

\* [a-b] of a pattern over ASCII digits, a and b being their values
in_range(c, a, b) == c \in DOMAIN AsciiDigits /\ AsciiDigits[c] \in a..b

\* int(s) of a string of decimal digits
RECURSIVE int_digits(_)
int_digits(s) ==
    IF s = <<>> THEN 0
    ELSE int_digits(SubSeq(s, 1, Len(s) - 1)) * 10 + DigitValue[s[Len(s)]]

-----------------------------------------------------------------------------
(* Calendar: datetime.strptime / date / datetime.combine *)

\* the full month names in lower case (strptime's f_month)
MonthNames ==
    <<<<"j","a","n","u","a","r","y">>,
      <<"f","e","b","r","u","a","r","y">>,
      <<"m","a","r","c","h">>,
      <<"a","p","r","i","l">>,
      <<"m","a","y">>,
      <<"j","u","n","e">>,
      <<"j","u","l","y">>,
      <<"a","u","g","u","s","t">>,
      <<"s","e","p","t","e","m","b","e","r">>,
      <<"o","c","t","o","b","e","r">>,
      <<"n","o","v","e","m","b","e","r">>,
      <<"d","e","c","e","m","b","e","r">>>>

\* %B: index of a full month name, compared in lower case (the directive
\* matches in any letter case); 0 when the token is not one
MonthNumber(name) ==
    IF \E m \in 1..12 : MonthNames[m] = lower(name)
    THEN CHOOSE m \in 1..12 : MonthNames[m] = lower(name)
    ELSE 0

IsLeap(y) == (y % 4 = 0) /\ ((y % 100 # 0) \/ (y % 400 = 0))

DaysInMonth(y, m) ==
    IF m = 2 THEN (IF IsLeap(y) THEN 29 ELSE 28)
    ELSE IF m \in {4, 6, 9, 11} THEN 30 ELSE 31

\* days in the months of year y that precede month m
RECURSIVE DaysBeforeMonth(_, _)
DaysBeforeMonth(y, m) ==
    IF m <= 1 THEN 0 ELSE DaysBeforeMonth(y, m - 1) + DaysInMonth(y, m - 1)

\* date.toordinal()
toordinal(d) ==
    LET y == d[1] - 1
    IN  y * 365 + (y \div 4) - (y \div 100) + (y \div 400)
        + DaysBeforeMonth(d[1], d[2]) + d[3]

\* %d matches the whole of s: 3[0-1]|[1-2]\d|0[1-9]|[1-9]
directive_d(s) ==
    \/ Len(s) = 2 /\ s[1] = "3" /\ in_range(s[2], 0, 1)
    \/ Len(s) = 2 /\ in_range(s[1], 1, 2) /\ is_digit(s[2])
    \/ Len(s) = 2 /\ s[1] = "0" /\ in_range(s[2], 1, 9)
    \/ Len(s) = 1 /\ in_range(s[1], 1, 9)

\* %Y matches the whole of s: \d\d\d\d
directive_Y(s) ==
    Len(s) = 4 /\ \A k \in 1..4 : is_digit(s[k])

\* %I matches the whole of s: 1[0-2]|0[1-9]|[1-9]
directive_I(s) ==
    \/ Len(s) = 2 /\ s[1] = "1" /\ in_range(s[2], 0, 2)
    \/ Len(s) = 2 /\ s[1] = "0" /\ in_range(s[2], 1, 9)
    \/ Len(s) = 1 /\ in_range(s[1], 1, 9)

\* %M matches the whole of s: [0-5]\d|\d
directive_M(s) ==
    \/ Len(s) = 2 /\ in_range(s[1], 0, 5) /\ is_digit(s[2])
    \/ Len(s) = 1 /\ is_digit(s[1])

\* datetime.strptime(f"{month_str} {day_str} {year_str}", "%B %d %Y").date(),
\* with None standing for the ValueError branch: a token no directive
\* matches, the year 0 or a day the month does not have
strptime_date(month_str, day_str, year_str) ==
    LET m == MonthNumber(month_str)
    IN  IF m # 0 /\ directive_d(day_str) /\ directive_Y(year_str)
        THEN LET day == int_digits(day_str)
                 year == int_digits(year_str)
             IN  IF year >= 1 /\ day <= DaysInMonth(year, m)
                 THEN <<year, m, day>>
                 ELSE None
        ELSE None

\* whether datetime.strptime(tok, "%I:%M %p") succeeds: %I and %M match the
\* digits, and the blank of the format needs at least one blank in the token
strptime_time_ok(tok) ==
    directive_I(tok.hh) /\ directive_M(tok.mm) /\ tok.sp >= 1

\* datetime.strptime(tok, "%I:%M %p").time(), in seconds since midnight
strptime_time(tok) ==
    LET hh == int_digits(tok.hh)
        hour == IF tok.ap = "AM"
                THEN (IF hh = 12 THEN 0 ELSE hh)
                ELSE (IF hh = 12 THEN 12 ELSE hh + 12)
    IN  hour * 3600 + int_digits(tok.mm) * 60

\* datetime.combine(date, time)
combine(d, t) == [date |-> d, secs |-> t]

\* datetime comparison a < b
dt_lt(a, b) ==
    \/ toordinal(a.date) < toordinal(b.date)
    \/ (a.date = b.date /\ a.secs < b.secs)

\* datetime comparison a <= b
dt_le(a, b) == dt_lt(a, b) \/ a = b

\* (a - b).total_seconds()
total_seconds(a, b) ==
    (toordinal(a.date) - toordinal(b.date)) * 86400 + (a.secs - b.secs)

-----------------------------------------------------------------------------
(* Plan-file lines *)

\* time tokens "H:MM AM|PM": hh and mm are the digits as written, sp the
\* number of blanks before the meridiem
Tok(h, m, ap) == [hh |-> h, mm |-> m, sp |-> 1, ap |-> ap]

\* the digits of the tokens the plan lines below are written with
Y2025 == <<"2", "0", "2", "5">>
M00 == <<"0", "0">>
M15 == <<"1", "5">>
M30 == <<"3", "0">>

BlankLine == [form |-> "blank"]
NoteLine  == [form |-> "other", raw |-> "Notes"]

\* "Monday, April 7th, 2025 - No Gym"
HdrA  == [form |-> "header", weekday |-> "Monday", month |-> <<"A","p","r","i","l">>,
          daytok |-> <<"7", "t", "h">>, year |-> Y2025, rest |-> " - No Gym"]
\* "Tuesday, april 7, 2025": the same date again under another header text
HdrA2 == [form |-> "header", weekday |-> "Tuesday", month |-> <<"a","p","r","i","l">>,
          daytok |-> <<"7">>, year |-> Y2025, rest |-> ""]
\* "Tuesday, April 8th, 2025"
HdrB  == [form |-> "header", weekday |-> "Tuesday", month |-> <<"A","p","r","i","l">>,
          daytok |-> <<"8", "t", "h">>, year |-> Y2025, rest |-> ""]
\* "Sunday, February 30th, 2025": matches the header pattern, is no date
HdrBad == [form |-> "header", weekday |-> "Sunday", month |-> <<"F","e","b","r","u","a","r","y">>,
           daytok |-> <<"3", "0", "t", "h">>, year |-> Y2025, rest |-> ""]
\* "Monday, April 5th, 2025" with ARABIC-INDIC DIGIT FIVE for the day: matches
\* the header pattern, is no date
HdrArabic == [form |-> "header", weekday |-> "Monday", month |-> <<"A","p","r","i","l">>,
              daytok |-> <<"U+0665", "t", "h">>, year |-> Y2025, rest |-> ""]

\* "9:00 AM -> 10:15 AM: Write report"
EvWrite == [form |-> "event", start |-> Tok(<<"9">>, M00, "AM"), end |-> Tok(<<"1", "0">>, M15, "AM"),
            desc |-> <<"W","r","i","t","e"," ","r","e","p","o","r","t">>]
\* "11:00 AM -> 12:00 PM: Review"
EvReview == [form |-> "event", start |-> Tok(<<"1", "1">>, M00, "AM"), end |-> Tok(<<"1", "2">>, M00, "PM"),
             desc |-> <<"R","e","v","i","e","w">>]
\* "9:00 AM -> 11:30 AM: Tea Break": overlaps both events above
EvBreak == [form |-> "event", start |-> Tok(<<"9">>, M00, "AM"), end |-> Tok(<<"1", "1">>, M30, "AM"),
            desc |-> <<"T","e","a"," ","B","r","e","a","k">>]
\* "11:00 PM -> 1:00 AM: X": the end time-of-day precedes the start
EvNight == [form |-> "event", start |-> Tok(<<"1", "1">>, M00, "PM"), end |-> Tok(<<"1">>, M00, "AM"),
            desc |-> <<"X">>]
\* "1:00 PM -> 2:00 PM: BREAK" with KELVIN SIGN for the last letter
EvKelvin == [form |-> "event", start |-> Tok(<<"1">>, M00, "PM"), end |-> Tok(<<"2">>, M00, "PM"),
             desc |-> <<"B","R","E","A","U+212A">>]
\* "25:99 AM -> 10:00 AM: X": the start token is no time
EvBadStart == [form |-> "event", start |-> Tok(<<"2", "5">>, <<"9", "9">>, "AM"), end |-> Tok(<<"1", "0">>, M00, "AM"),
               desc |-> <<"X">>]
\* "10:00 AM -> 12:00 PM: Y" with ARABIC-INDIC DIGIT TWO for the 2 of the end
\* hour: matches the event pattern, the end token is no time
EvBadEnd == [form |-> "event", start |-> Tok(<<"1", "0">>, M00, "AM"),
             end |-> Tok(<<"1", "U+0662">>, M00, "PM"), desc |-> <<"Y">>]
PlanLines == {BlankLine, NoteLine, HdrA, HdrA2, HdrB, HdrBad, HdrArabic,
              EvWrite, EvReview, EvBreak, EvNight, EvKelvin, EvBadStart, EvBadEnd}

\* every plan file of at most n lines
PlanFiles(n) == UNION {[1..k -> PlanLines] : k \in 0..n}

\* line.strip() == ""
is_blank(line) == line.form = "blank"

\* st|nd|rd|th
OrdinalSuffixes == {<<"s", "t">>, <<"n", "d">>, <<"r", "d">>, <<"t", "h">>}

\* \d{1,2}(?:st|nd|rd|th)? matches the whole of tok
day_token_pattern(tok) ==
    \E n \in 1..2 :
        /\ Len(tok) \in {n, n + 2}
        /\ \A k \in 1..n : is_digit(tok[k])
        /\ Len(tok) = n + 2 => SubSeq(tok, n + 1, n + 2) \in OrdinalSuffixes

\* \d{1,2}:\d{2}\s*(?:AM|PM) matches the whole of tok
time_token_pattern(tok) ==
    /\ Len(tok.hh) \in 1..2
    /\ \A k \in 1..Len(tok.hh) : is_digit(tok.hh[k])
    /\ Len(tok.mm) = 2
    /\ \A k \in 1..2 : is_digit(tok.mm[k])
    /\ tok.sp >= 0
    /\ tok.ap \in {"AM", "PM"}

\* day_header_pattern.match(line): letters, letters, 1-2 digits with an optional
\* ordinal suffix, 4 digits, anything
day_header_pattern(line) ==
    /\ line.form = "header"
    /\ Len(line.month) >= 1
    /\ \A k \in 1..Len(line.month) : line.month[k] \in AsciiLetters
    /\ day_token_pattern(line.daytok)
    /\ Len(line.year) = 4
    /\ \A k \in 1..4 : is_digit(line.year[k])

\* event_pattern.match(line): two time tokens of 1-2 and 2 digits with AM|PM,
\* the arrow, a colon and a non-empty description
event_pattern(line) ==
    /\ line.form = "event"
    /\ time_token_pattern(line.start)
    /\ time_token_pattern(line.end)
    /\ Len(line.desc) >= 1

\* re.sub(r"(st|nd|rd|th)", "", day_str_with_suffix): every occurrence is
\* removed, left to right
RECURSIVE strip_suffix(_)
strip_suffix(daytok) ==
    IF daytok = <<>> THEN <<>>
    ELSE IF Len(daytok) >= 2 /\ SubSeq(daytok, 1, 2) \in OrdinalSuffixes
         THEN strip_suffix(SubSeq(daytok, 3, Len(daytok)))
    ELSE <<Head(daytok)>> \o strip_suffix(Tail(daytok))

\* the date of a header line (None after the ValueError)
header_date(line) ==
    strptime_date(line.month, strip_suffix(line.daytok), line.year)

\* variant: only the start token is checked before the event is built
event_times_ok_start_only(line) ==
    strptime_time_ok(line.start)

\* the try block of an event line: both strptime calls succeed
event_times_ok(line) ==
    strptime_time_ok(line.start) /\ strptime_time_ok(line.end)

\* the event dict built from an event line inside the day `day`
make_event(day, line) ==
    [start |-> combine(day.date, strptime_time(line.start)),
     end |-> combine(day.date, strptime_time(line.end)),
     description |-> line.desc]

\* current_day["events"] = current_events; days.append(current_day)
close_day(ds, day, events) ==
    IF day = None THEN ds
    ELSE Append(ds, [day[1] EXCEPT !.events = events])

-----------------------------------------------------------------------------
(* parse_plan_file *)

Init ==
    /\ lines \in PlanFiles(MaxLines)
    /\ pc = "parse"
    /\ i = 0
    /\ days = <<>>
    /\ current_day = None
    /\ current_events = <<>>
    /\ current_dt = None
    /\ today_schedule = None
    /\ current_event = None
    /\ upcoming_non_break = <<>>
    /\ remaining_minutes = -1
    /\ view_full_schedule = FALSE
    /\ key = -1   \* no key read yet

InLoop == pc = "parse" /\ i < Len(lines)

\* if line == "": continue
SkipBlank ==
    /\ InLoop
    /\ is_blank(lines[i + 1])
    /\ i' = i + 1
    /\ UNCHANGED <<lines, pc, parse_vars, render_vars>>

\* variant: the collected events are not reset when a day is finalized
DayHeader_keeps_events ==
    /\ InLoop
    /\ ~is_blank(lines[i + 1])
    /\ day_header_pattern(lines[i + 1])
    /\ days' = close_day(days, current_day, current_events)
    /\ current_day' = <<[date |-> header_date(lines[i + 1]),
                         header |-> lines[i + 1],
                         events |-> <<>>]>>
    /\ i' = i + 1
    /\ UNCHANGED <<lines, pc, current_events, render_vars>>

\* a day header: finalize the open day, open a new one
DayHeader ==
    /\ InLoop
    /\ ~is_blank(lines[i + 1])
    /\ day_header_pattern(lines[i + 1])
    /\ days' = close_day(days, current_day, current_events)
    /\ current_events' = IF current_day # None THEN <<>> ELSE current_events
    /\ current_day' = <<[date |-> header_date(lines[i + 1]),
                         header |-> lines[i + 1],
                         events |-> <<>>]>>
    /\ i' = i + 1
    /\ UNCHANGED <<lines, pc, render_vars>>

\* the line is an event line inside a day
IsEventInDay ==
    /\ InLoop
    /\ ~is_blank(lines[i + 1])
    /\ ~day_header_pattern(lines[i + 1])
    /\ event_pattern(lines[i + 1])
    /\ current_day # None

\* an event line whose times parse, in a day that has a date
EventLine ==
    /\ IsEventInDay
    /\ event_times_ok(lines[i + 1])
    /\ current_day[1].date # None
    /\ current_events' = Append(current_events, make_event(current_day[1], lines[i + 1]))
    /\ i' = i + 1
    /\ UNCHANGED <<lines, pc, days, current_day, render_vars>>

\* except Exception: continue
EventTimeError ==
    /\ IsEventInDay
    /\ ~event_times_ok(lines[i + 1])
    /\ i' = i + 1
    /\ UNCHANGED <<lines, pc, parse_vars, render_vars>>

\* datetime.combine(None, ...) raises TypeError outside the try block
EventCombineError ==
    /\ IsEventInDay
    /\ event_times_ok(lines[i + 1])
    /\ current_day[1].date = None
    /\ pc' = "raised"
    /\ UNCHANGED <<lines, i, parse_vars, render_vars>>

\* neither a header nor an event inside a day
IgnoreLine ==
    /\ InLoop
    /\ ~is_blank(lines[i + 1])
    /\ ~day_header_pattern(lines[i + 1])
    /\ ~(event_pattern(lines[i + 1]) /\ current_day # None)
    /\ i' = i + 1
    /\ UNCHANGED <<lines, pc, parse_vars, render_vars>>

\* after the loop: append the last day and return days
Finalize ==
    /\ pc = "parse"
    /\ i = Len(lines)
    /\ days' = close_day(days, current_day, current_events)
    /\ pc' = "run"
    /\ UNCHANGED <<lines, i, current_day, current_events, render_vars>>

-----------------------------------------------------------------------------
(* find_today_schedule and render_main_view *)

\* variant: the loop keeps going and the last matching day wins
find_today_schedule_last(ds, target_date) ==
    IF \E k \in 1..Len(ds) : ds[k].date = target_date
    THEN LET last == CHOOSE k \in 1..Len(ds) :
                         /\ ds[k].date = target_date
                         /\ \A j \in (k + 1)..Len(ds) : ds[j].date # target_date
         IN  <<ds[last]>>
    ELSE None

\* the first day of ds whose date equals target_date, None when there is none
find_today_schedule(ds, target_date) ==
    IF \E k \in 1..Len(ds) : ds[k].date = target_date
    THEN LET first == CHOOSE k \in 1..Len(ds) :
                          /\ ds[k].date = target_date
                          /\ \A j \in 1..(k - 1) : ds[j].date # target_date
         IN  <<ds[first]>>
    ELSE None

\* variant: e goes in front of the elements with an equal start (unstable sort)
RECURSIVE insert_by_start_unstable(_, _)
insert_by_start_unstable(s, e) ==
    IF s = <<>> THEN <<e>>
    ELSE IF dt_le(e.start, Head(s).start) THEN <<e>> \o s
    ELSE <<Head(s)>> \o insert_by_start_unstable(Tail(s), e)

\* e inserted into the sorted list s behind every element whose start is <= e's
RECURSIVE insert_by_start(_, _)
insert_by_start(s, e) ==
    IF s = <<>> THEN <<e>>
    ELSE IF dt_lt(e.start, Head(s).start) THEN <<e>> \o s
    ELSE <<Head(s)>> \o insert_by_start(Tail(s), e)

\* sorted(events, key=lambda e: e["start"]): stable, ascending
RECURSIVE sorted_by_start(_)
sorted_by_start(events) ==
    IF events = <<>> THEN <<>>
    ELSE insert_by_start(sorted_by_start(SubSeq(events, 1, Len(events) - 1)),
                         events[Len(events)])

\* variant: the end instant counts as in progress
in_progress_closed(event, now) ==
    dt_le(event.start, now) /\ dt_le(now, event.end)

\* event["start"] <= current_dt < event["end"]
in_progress(event, now) == dt_le(event.start, now) /\ dt_lt(now, event.end)

\* the for-loop with break: the first event of `events` in progress at now
find_current(events, now) ==
    IF \E k \in 1..Len(events) : in_progress(events[k], now)
    THEN LET first == CHOOSE k \in 1..Len(events) :
                          /\ in_progress(events[k], now)
                          /\ \A j \in 1..(k - 1) : ~in_progress(events[j], now)
         IN  <<events[first]>>
    ELSE None

\* variant: the description is not lower-cased before the test
is_upcoming_non_break_cased(e, now) ==
    ~contains(e.description, BreakWord) /\ dt_lt(now, e.start)

\* ("break" not in e["description"].lower()) and (e["start"] > current_dt)
is_upcoming_non_break(e, now) ==
    ~contains(lower(e.description), BreakWord) /\ dt_lt(now, e.start)

\* the list comprehension over the sorted events
filter_upcoming(events, now) ==
    LET keep(e) == is_upcoming_non_break(e, now)
    IN  SelectSeq(events, keep)

\* variant: the elapsed time of the event instead of the remaining time
minutes_left_elapsed(event, now) ==
    total_seconds(now, event.start) \div 60

\* int((current_event["end"] - current_dt).total_seconds() // 60)
minutes_left(event, now) == total_seconds(event.end, now) \div 60

\* current_dt.replace(second=0, microsecond=0)
replace_second(dt) == [dt EXCEPT !.secs = (dt.secs \div 60) * 60]

DateA == <<2025, 4, 7>>
DateB == <<2025, 4, 8>>

\* hours and minutes as seconds since midnight
HM(h, m) == h * 3600 + m * 60

\* the clock readings a refresh can see
WallClock ==
    {[date |-> DateA, secs |-> t + s] :
        t \in {HM(8, 30), HM(9, 0), HM(9, 30), HM(10, 15), HM(10, 30),
               HM(11, 0), HM(12, 0)},
        s \in {0, 42}}
    \cup {[date |-> DateB, secs |-> HM(9, 30)]}

\* stdscr.getch() when no key is waiting
NoKey == -1

\* ord('q'), ord('t') and the code of a key the loop does not know, ord('x')
ord_q == 113
ord_t == 116
ord_x == 120

Keys == {ord_q, ord_t, ord_x}

\* one pass of the while-True body in the main view for the clock reading
\* wall: the clock is truncated, today's schedule is looked up and
\* render_main_view evaluates it
main_view_iteration(wall) ==
    LET now == replace_second(wall)
        today == find_today_schedule(days, now.date)
        events == IF today = None THEN <<>>
                  ELSE sorted_by_start(today[1].events)
        cur == IF today = None THEN None ELSE find_current(events, now)
    IN  /\ current_dt' = <<now>>
        /\ today_schedule' = today
        /\ current_event' = cur
        /\ upcoming_non_break' =
              IF today = None THEN <<>> ELSE filter_upcoming(events, now)
        /\ remaining_minutes' =
              IF cur = None THEN -1 ELSE minutes_left(cur[1], now)

\* one pass of the while-True body in the full-schedule view:
\* render_full_schedule_view is called, render_main_view is not
full_view_iteration(wall) ==
    LET now == replace_second(wall)
    IN  /\ current_dt' = <<now>>
        /\ today_schedule' = find_today_schedule(days, now.date)
        /\ current_event' = None
        /\ upcoming_non_break' = <<>>
        /\ remaining_minutes' = -1

\* the loop has rendered a view and polls the keyboard
Polling == pc = "run" /\ current_dt # None

\* one refresh of the main view: the first pass of the loop, or the polling
\* timed out with no key that changes the view
Refresh ==
    /\ pc = "run"
    /\ ~view_full_schedule
    /\ \E wall \in WallClock : main_view_iteration(wall)
    /\ key' = NoKey
    /\ UNCHANGED <<lines, pc, i, parse_vars, view_full_schedule>>

\* one refresh of the full-schedule view after the polling timed out
RefreshFull ==
    /\ Polling
    /\ view_full_schedule
    /\ \E wall \in WallClock : full_view_iteration(wall)
    /\ key' = NoKey
    /\ UNCHANGED <<lines, pc, i, parse_vars, view_full_schedule>>

\* main view, 'q': return
KeyQuit ==
    /\ Polling
    /\ ~view_full_schedule
    /\ key' = ord_q
    /\ pc' = "exit"
    /\ UNCHANGED <<lines, i, parse_vars, current_dt, today_schedule, current_event,
                   upcoming_non_break, remaining_minutes, view_full_schedule>>

\* main view, 't': view_full_schedule = True; break; the next pass renders
\* the full-schedule view
KeyToFull ==
    /\ Polling
    /\ ~view_full_schedule
    /\ key' = ord_t
    /\ view_full_schedule' = TRUE
    /\ \E wall \in WallClock : full_view_iteration(wall)
    /\ UNCHANGED <<lines, pc, i, parse_vars>>

\* variant: 'q' in the full-schedule view returns from run_scheduler
KeyToMain_quits ==
    /\ Polling
    /\ view_full_schedule
    /\ key' = ord_q
    /\ pc' = "exit"
    /\ UNCHANGED <<lines, i, parse_vars, current_dt, today_schedule, current_event,
                   upcoming_non_break, remaining_minutes, view_full_schedule>>

\* full-schedule view, 'q': view_full_schedule = False; break; the next pass
\* renders the main view
KeyToMain ==
    /\ Polling
    /\ view_full_schedule
    /\ key' = ord_q
    /\ view_full_schedule' = FALSE
    /\ \E wall \in WallClock : main_view_iteration(wall)
    /\ UNCHANGED <<lines, pc, i, parse_vars>>

\* a key no branch handles ('t' and others in the full-schedule view, others
\* in the main view): the polling goes on
KeyIgnored ==
    /\ Polling
    /\ \E k \in Keys :
          /\ IF view_full_schedule THEN k # ord_q ELSE k \notin {ord_q, ord_t}
          /\ key' = k
    /\ UNCHANGED <<lines, pc, i, parse_vars, current_dt, today_schedule,
                   current_event, upcoming_non_break, remaining_minutes,
                   view_full_schedule>>

\* the event shown as the nearest upcoming one (upcoming_non_break[0])
next_event ==
    IF upcoming_non_break = <<>> THEN None ELSE <<upcoming_non_break[1]>>

Next ==
    \/ SkipBlank
    \/ DayHeader
    \/ EventLine
    \/ EventTimeError
    \/ EventCombineError
    \/ IgnoreLine
    \/ Finalize
    \/ Refresh

\* the scheduler when no key is ever pressed
Spec == Init /\ [][Next]_vars

\* the plan files the keyboard is explored on
ViewFiles ==
    {<<>>,
     <<HdrA, EvWrite, EvReview>>,
     <<BlankLine, NoteLine, HdrB>>,
     <<HdrA2, EvBadStart, EvBreak>>,
     <<HdrBad, EvNight>>}

InitView ==
    /\ Init
    /\ lines \in ViewFiles

NextView ==
    \/ Next
    \/ RefreshFull
    \/ KeyQuit
    \/ KeyToFull
    \/ KeyToMain
    \/ KeyIgnored

\* the scheduler with a keyboard
SpecView == InitView /\ [][NextView]_vars

TypeOK ==
    /\ pc \in {"parse", "run", "raised", "exit"}
    /\ view_full_schedule \in BOOLEAN
    /\ key \in Keys \cup {NoKey}
    /\ i \in 0..Len(lines)
    /\ Len(current_day) <= 1
    /\ Len(today_schedule) <= 1
    /\ Len(current_event) <= 1

-----------------------------------------------------------------------------
(* Properties of the parser *)

\* the positions of the header lines of txt, ascending
HeaderPositions(txt) ==
    LET isHeader(k) == ~is_blank(txt[k]) /\ day_header_pattern(txt[k])
    IN  SelectSeq([k \in 1..Len(txt) |-> k], isHeader)

\* the lines of the j-th day block of txt that follow its header
BlockLines(txt, j) ==
    LET hp == HeaderPositions(txt)
        last == IF j < Len(hp) THEN hp[j + 1] - 1 ELSE Len(txt)
    IN  SubSeq(txt, hp[j] + 1, last)

\* a time token that parses: an hour 1..12 in ASCII digits, a minute 0..59
\* whose first digit is ASCII, a blank before the meridiem
ClockTime(tok) ==
    /\ \A k \in 1..Len(tok.hh) : tok.hh[k] \in DOMAIN AsciiDigits
    /\ int_digits(tok.hh) \in 1..12
    /\ tok.mm[1] \in DOMAIN AsciiDigits
    /\ int_digits(tok.mm) \in 0..59
    /\ tok.sp >= 1

\* an event-shaped line whose two time tokens both parse
WellTimed(line) ==
    /\ line.form = "event"
    /\ ClockTime(line.start)
    /\ ClockTime(line.end)

\* an event-shaped line one of whose time tokens is no time
Malformed(line) == line.form = "event" /\ ~WellTimed(line)

\* the events the j-th day block of txt describes, in file order
BlockEvents(txt, j) ==
    LET hp == HeaderPositions(txt)
        good == SelectSeq(BlockLines(txt, j), WellTimed)
        day == [date |-> header_date(txt[hp[j]])]
    IN  [n \in 1..Len(good) |-> make_event(day, good[n])]

\* the part of the file the loop has consumed
Consumed == SubSeq(lines, 1, i)

\* C1: when parse_plan_file is over it has returned one DaySchedule per header
\* line of the file, in the order of the header lines, whatever blank,
\* event and unrecognized lines surround them.
C1_OneDayPerHeader ==
    pc # "parse" =>
        /\ pc = "run"
        /\ Len(days) = Len(HeaderPositions(lines))
        /\ \A k \in 1..Len(days) : days[k].header = lines[HeaderPositions(lines)[k]]

\* C2: a header line whose date is invalid never makes the parse raise; once
\* the parse is over its DaySchedule exists with an absent date and holds the
\* events of the lines that follow it.
C2_BadHeaderKeepsParsing ==
    LET hp == HeaderPositions(lines)
    IN  \A j \in 1..Len(hp) :
            (hp[j] <= i /\ header_date(lines[hp[j]]) = None) =>
                /\ pc # "raised"
                /\ pc = "run" =>
                      /\ Len(days) >= j
                      /\ days[j].date = None
                      /\ Len(days[j].events) = Len(SelectSeq(BlockLines(lines, j), WellTimed))

\* C3: an event-shaped line with a malformed start or end time is dropped as
\* a whole: the step that consumes it does not raise and leaves days, the open
\* day and its collected events as they were; a day block whose only line is
\* malformed ends with zero events.
C3_MalformedEventDropped ==
    /\ [][(pc = "parse" /\ i < Len(lines) /\ Malformed(lines[i + 1])) =>
              (pc' = "parse" /\ i' = i + 1 /\ UNCHANGED parse_vars)]_vars
    /\ [](pc = "run" =>
             \A j \in 1..Len(days) :
                 (BlockLines(lines, j) # <<>>
                    /\ \A n \in 1..Len(BlockLines(lines, j)) :
                           Malformed(BlockLines(lines, j)[n]))
                 => days[j].events = <<>>)

\* a day with a date whose block is a good event line and a malformed one has
\* been parsed: only the good line's event is there
C3_Witness ==
    /\ pc = "run"
    /\ lines = <<HdrA, EvWrite, EvBadEnd>>
    /\ Len(days) = 1
    /\ Len(days[1].events) = 1

\* C7: every Event stored by the parser has start < end.
C7_StartBeforeEnd ==
    /\ \A k \in 1..Len(days) : \A n \in 1..Len(days[k].events) :
           dt_lt(days[k].events[n].start, days[k].events[n].end)
    /\ \A n \in 1..Len(current_events) :
           dt_lt(current_events[n].start, current_events[n].end)

\* C10: block state machine. After any number of consumed lines the finalized
\* days are the header blocks met so far, each holding exactly the events of
\* the well-timed event lines between its header and the next one, in file
\* order; the open day collects exactly those of its own block; nothing is
\* open before the first header, so earlier event lines belong to no day.
C10_BlockEvents ==
    LET hp == HeaderPositions(Consumed)
    IN  /\ \A j \in 1..Len(days) :
               /\ j <= Len(hp)
               /\ days[j].header = lines[hp[j]]
               /\ days[j].events = BlockEvents(Consumed, j)
        /\ (current_day = None) <=> (hp = <<>>)
        /\ pc \in {"run", "exit"} => Len(days) = Len(hp)
        /\ (pc \in {"parse", "raised"} /\ current_day # None) =>
               /\ Len(days) = Len(hp) - 1
               /\ current_day[1].header = lines[hp[Len(hp)]]
               /\ current_events = BlockEvents(Consumed, Len(hp))

\* an event line before the first header is in no day, the event line after
\* the header is in its day
C10_Witness ==
    /\ pc = "run"
    /\ lines = <<EvWrite, HdrA, EvReview>>
    /\ Len(days) = 1
    /\ Len(days[1].events) = 1
    /\ days[1].events[1].description = EvReview.desc

-----------------------------------------------------------------------------
(* Properties of the lookup and the evaluation *)

\* a refresh has evaluated a day
Evaluated ==
    pc = "run" /\ ~view_full_schedule /\ current_dt # None /\ today_schedule # None

\* start <= now < end
Covers(e, now) == dt_le(e.start, now) /\ dt_lt(now, e.end)

\* C4: half-open containment. An event with start < end of the evaluated day,
\* no other event of the day covering now, is reported as current exactly
\* when start <= now < end: at now = start and inside, not at now = end, not
\* before the start and not after the end.
C4_HalfOpenContainment ==
    Evaluated =>
        LET now == current_dt[1]
            evs == today_schedule[1].events
        IN  \A k \in 1..Len(evs) :
                (/\ dt_lt(evs[k].start, evs[k].end)
                 /\ \A j \in 1..Len(evs) : j # k => ~Covers(evs[j], now))
                => ((current_event = <<evs[k]>>) <=> Covers(evs[k], now))

\* the day's only event ends at now and is not current
C4_Witness ==
    /\ Evaluated
    /\ Len(today_schedule[1].events) = 1
    /\ dt_lt(today_schedule[1].events[1].start, today_schedule[1].events[1].end)
    /\ today_schedule[1].events[1].end = current_dt[1]
    /\ current_event = None

\* the event of evs with the least start among those starting after now, the
\* first of the file among equal starts; None when no event starts after now
NearestAfter(evs, now) ==
    IF \E k \in 1..Len(evs) : dt_lt(now, evs[k].start)
    THEN LET best == CHOOSE k \in 1..Len(evs) :
                        /\ dt_lt(now, evs[k].start)
                        /\ \A j \in 1..Len(evs) :
                               dt_lt(now, evs[j].start) =>
                                   \/ dt_lt(evs[k].start, evs[j].start)
                                   \/ (evs[k].start = evs[j].start /\ k <= j)
         IN  <<evs[best]>>
    ELSE None

\* the description contains "break" in any letter case
IsBreak(e) == contains(lower(e.description), BreakWord)

\* the events of evs that are no breaks, in file order
NonBreaks(evs) ==
    LET keep(e) == ~IsBreak(e)
    IN  SelectSeq(evs, keep)

\* C5 as stated: the next event is the nearest event starting after now among
\* all events of the day, whatever its description.
C5_NearestNextAnyDescription ==
    Evaluated => next_event = NearestAfter(today_schedule[1].events, current_dt[1])

\* C5 amended: the next event is the nearest event starting after now among
\* the events whose description does not contain "break" (any letter case),
\* ties by file order, whether or not a current event exists; it is absent
\* exactly when no such event starts after now.
C5_NearestNextNonBreak ==
    Evaluated =>
        /\ next_event = NearestAfter(NonBreaks(today_schedule[1].events), current_dt[1])
        /\ (next_event = None) <=>
               ~\E k \in 1..Len(today_schedule[1].events) :
                    /\ ~IsBreak(today_schedule[1].events[k])
                    /\ dt_lt(current_dt[1], today_schedule[1].events[k].start)

\* a break is the nearest event after now and a non-break event is reported
\* as next
C5_Witness ==
    /\ Evaluated
    /\ next_event # None
    /\ NearestAfter(today_schedule[1].events, current_dt[1]) # None
    /\ IsBreak(NearestAfter(today_schedule[1].events, current_dt[1])[1])
    /\ ~IsBreak(next_event[1])

\* C6: find_today_schedule returns the first day in file order whose date is
\* the target date, also among several days of that date; it returns None
\* exactly when no day has the date, and never a day whose date is absent.
C6_FirstMatchingDay ==
    (pc = "run" /\ current_dt # None) =>
        LET target == current_dt[1].date
            matches == {k \in 1..Len(days) : days[k].date = target}
        IN  /\ (today_schedule = None) <=> (matches = {})
            /\ today_schedule # None =>
                  /\ today_schedule[1].date # None
                  /\ \E k \in matches :
                        /\ today_schedule = <<days[k]>>
                        /\ \A j \in matches : k <= j

\* two different days carry the target date, behind a day of another date,
\* and the first of the two is returned
C6_Witness ==
    /\ pc = "run"
    /\ current_dt # None
    /\ Len(days) = 3
    /\ days[1].date # current_dt[1].date
    /\ days[2].date = current_dt[1].date
    /\ days[3].date = current_dt[1].date
    /\ days[2] # days[3]
    /\ today_schedule = <<days[2]>>

\* C8: when a current event is reported, the remaining time is
\* (current.end - now) floored to whole minutes and is not negative; the file
\* HdrA, EvWrite, EvReview evaluated at 2025-04-07 09:30 gives the Write
\* report event as current, 45 minutes remaining and the Review event as next.
C8_RemainingMinutes ==
    /\ (Evaluated /\ current_event # None) =>
          LET left == total_seconds(current_event[1].end, current_dt[1])
          IN  /\ remaining_minutes >= 0
              /\ remaining_minutes * 60 <= left
              /\ left < (remaining_minutes + 1) * 60
    /\ (/\ pc = "run"
        /\ ~view_full_schedule
        /\ lines = <<HdrA, EvWrite, EvReview>>
        /\ current_dt = <<[date |-> DateA, secs |-> HM(9, 30)]>>)
       => /\ current_event = <<[start |-> [date |-> DateA, secs |-> HM(9, 0)],
                                end |-> [date |-> DateA, secs |-> HM(10, 15)],
                                description |-> EvWrite.desc]>>
          /\ remaining_minutes = 45
          /\ next_event = <<[start |-> [date |-> DateA, secs |-> HM(11, 0)],
                             end |-> [date |-> DateA, secs |-> HM(12, 0)],
                             description |-> EvReview.desc]>>

\* the scenario has been evaluated
C8_Witness ==
    /\ pc = "run"
    /\ lines = <<HdrA, EvWrite, EvReview>>
    /\ current_dt = <<[date |-> DateA, secs |-> HM(9, 30)]>>
    /\ current_event # None
    /\ remaining_minutes = 45

\* the positions of the events of evs that cover now
Covering(evs, now) == {k \in 1..Len(evs) : Covers(evs[k], now)}

\* C9: when several events of the day cover now, the current event is the
\* one with the earliest start, the first of the file among equal starts; an
\* evaluation never changes the stored days, so the file order of the events
\* is kept across evaluations.
C9_EarliestOverlapping ==
    /\ [](Evaluated =>
            LET now == current_dt[1]
                evs == today_schedule[1].events
                cov == Covering(evs, now)
            IN  Cardinality(cov) >= 2 =>
                    \E k \in cov :
                        /\ current_event = <<evs[k]>>
                        /\ \A j \in cov :
                               \/ dt_lt(evs[k].start, evs[j].start)
                               \/ (evs[k].start = evs[j].start /\ k <= j))
    /\ [][pc = "run" => (days' = days /\ (today_schedule' # None =>
              \E k \in 1..Len(days) : today_schedule' = <<days[k]>>))]_vars

\* two different events with the same start both cover now and the first of
\* the file is current
C9_Witness ==
    /\ Evaluated
    /\ Len(today_schedule[1].events) = 2
    /\ today_schedule[1].events[1] # today_schedule[1].events[2]
    /\ today_schedule[1].events[1].start = today_schedule[1].events[2].start
    /\ Covering(today_schedule[1].events, current_dt[1]) = {1, 2}
    /\ current_event = <<today_schedule[1].events[1]>>

-----------------------------------------------------------------------------
(* Properties of the view switching *)

\* C11: view state machine of run_scheduler. The loop starts in the main
\* view. A step that handles a key k (key' = k): 't' in the main view
\* switches to the full-schedule view; 'q' in the full-schedule view switches
\* back to the main view and does not exit; 't' and every other key in the
\* full-schedule view, and every other key in the main view, leave the view
\* as it is and do not exit; 'q' in the main view exits. The view changes
\* only by these two switches and the loop exits only by 'q' in the main
\* view.
C11_ViewStateMachine ==
    /\ [](current_dt = None => ~view_full_schedule)
    /\ [][/\ (pc = "run" /\ ~view_full_schedule /\ key' = ord_t) =>
                 (view_full_schedule' /\ pc' = "run")
          /\ (pc = "run" /\ view_full_schedule /\ key' = ord_q) =>
                 (~view_full_schedule' /\ pc' = "run")
          /\ (pc = "run" /\ view_full_schedule /\ key' \in {ord_t, ord_x}) =>
                 (view_full_schedule' /\ pc' = "run")
          /\ (pc = "run" /\ ~view_full_schedule /\ key' = ord_x) =>
                 (~view_full_schedule' /\ pc' = "run")
          /\ (pc = "run" /\ ~view_full_schedule /\ key' = ord_q) => pc' = "exit"
          /\ (view_full_schedule' # view_full_schedule) =>
                 key' = (IF view_full_schedule THEN ord_q ELSE ord_t)
          /\ (pc' = "exit") =>
                 (pc = "run" /\ ~view_full_schedule /\ key' = ord_q)
          /\ (pc = "exit") => UNCHANGED vars
         ]_vars

\* the loop is back in the main view through a 'q' pressed in the
\* full-schedule view, and still runs
C11_Witness ==
    /\ pc = "run"
    /\ ~view_full_schedule
    /\ key = ord_q
    /\ current_dt # None

====
